---- MODULE Spec2Model ----
(***************************************************************************)
(* Model of content/04_spatial_autocorrelation.ipynb: the notebook kernel  *)
(* as a state machine.  One action per code cell; the state is the set of  *)
(* kernel names the cells assign (san_diego, wq, y, jc, mi, image), the    *)
(* global numpy generator and the warnings filter.  The calls into esda,   *)
(* libpysal and numpy are modelled by what those calls compute at the call *)
(* site (the libraries' sources are not part of the notebook).             *)
(*                                                                         *)
(* Floating-point values are modelled as exact rationals [num, den] plus   *)
(* NaN; rounding is not modelled.                                          *)
(***************************************************************************)
EXTENDS Integers, Sequences, FiniteSets, TLC

(* ------------------------------ bounds -------------------------------- *)
\* rows of the raw san_diego frame
MaxRows == 3
\* largest median_home_value (values are 0..MaxValue)
MaxValue == 1
\* largest permutation count a test is run with (the library default is 999)
MaxPerms == 2
\* number of cell re-executions explored
MaxReruns == 1
\* units of a weights structure handed to Join_Counts directly
MaxUnits == 4
\* units of a weights structure handed to Moran directly
MaxMoranUnits == 3
\* units of a weights structure in the calls with arguments of any shape
MaxCallUnits == 3
\* units of a weights structure in a call that gives no permutation count
MaxDefaultUnits == 2
\* longest vector handed to a test in those calls
MaxLen == 3
\* tracts of the scag frame in the segregation notebook
MaxTracts == 7

(* ------------------------- program constants -------------------------- *)
\* np.random.seed(12345)
SEED == 12345
\* nrows, ncols = 9,9
nrows == 9
ncols == 9
\* the permutations a test runs when the caller gives no count
PERMUTATIONS == 999

NA == -1
Rows == 1..MaxRows
Values == 0..MaxValue
\* the seeds the kernel's generator may start from (OS entropy)
Entropy == {0, 1}

(* ------------------------------ helpers ------------------------------- *)
RECURSIVE SumSet(_, _)
\* sum of f[x] over x in the finite set S
SumSet(f, S) ==
  IF S = {} THEN 0
  ELSE LET x == CHOOSE e \in S : TRUE IN f[x] + SumSet(f, S \ {x})

RECURSIVE ProdSet(_, _)
ProdSet(f, S) ==
  IF S = {} THEN 1
  ELSE LET x == CHOOSE e \in S : TRUE IN f[x] * ProdSet(f, S \ {x})

SumSeq(s) == SumSet(s, DOMAIN s)

\* a float: an exact rational, or NaN
NaN == [nan |-> TRUE, num |-> 0, den |-> 1]
Rat(n, d) == [nan |-> FALSE, num |-> n, den |-> d]
\* x / y on numpy floats with y >= 0 and x = 0 whenever y = 0: 0/0 is nan
\* (a RuntimeWarning, not an exception)
FDiv(n, d) == IF d = 0 THEN NaN ELSE Rat(n, d)
\* a >= b on floats; any comparison with nan is False
FGe(a, b) == ~a.nan /\ ~b.nan /\ a.num * b.den >= b.num * a.den

(* --------------------------- the generator ---------------------------- *)
\* the k-th 32-bit word of the stream seeded with s (a fixed function of
\* the seed and the position, standing for the Mersenne Twister stream)
Draw(s, k) == ((s + 1) * (2 * k + 3) + k * k + (s % 5) * (k + 1)) % 7919

\* np.random.seed(s): the global generator restarts the stream of s
Seeded(s) == [seed |-> s, pos |-> 0]

RECURSIVE Shuffle(_, _, _, _)
\* Fisher-Yates from the last index down, as np.random.shuffle:
\*   for i in reversed(range(1, n)): j = interval(i); x[i], x[j] = x[j], x[i]
Shuffle(x, i, s, k) ==
  IF i < 2 THEN x
  ELSE LET j == 1 + (Draw(s, k) % i)
           swapped == [x EXCEPT ![i] = x[j], ![j] = x[i]]
       IN Shuffle(swapped, i - 1, s, k + 1)

\* variant: the values drawn with replacement
PermutationWithReplacement(x, r) ==
  [k \in 1..Len(x) |-> x[1 + (Draw(r.seed, r.pos + k - 1) % Len(x))]]

\* np.random.permutation(x) with the generator in state r
Permutation(x, r) == Shuffle(x, Len(x), r.seed, r.pos)
\* the generator at the start of trial t (1-based) of a test over n values:
\* every np.random.permutation of n values takes n - 1 draws
AtTrial(r, n, t) == [r EXCEPT !.pos = r.pos + (t - 1) * (IF n > 1 THEN n - 1 ELSE 0)]

(* ----------------------------- weights -------------------------------- *)
\* an undirected adjacency over the rows of the frame: polygons that touch
AllPairs == {e \in SUBSET Rows : Cardinality(e) = 2}

NoW == [n |-> 0, nb |-> << >>, transform |-> "none"]

\* variant: every join listed once, at its lower unit
QueenFromDataframeUpper(df, touch) ==
  [n |-> Len(df),
   nb |-> [k \in 1..Len(df) |->
            {l \in 1..Len(df) : l > k /\ {df[k], df[l]} \in touch}],
   transform |-> "O"]

\* lps.weights.Queen.from_dataframe(df): unit k is the k-th row of df; two
\* units are neighbours when their polygons share an edge or a vertex.
\* A new W is in the original transform "O", whose weights are binary.
QueenFromDataframe(df, touch) ==
  [n |-> Len(df),
   nb |-> [k \in 1..Len(df) |->
            {l \in 1..Len(df) : l # k /\ {df[k], df[l]} \in touch}],
   transform |-> "O"]

Card(w, i) == Cardinality(w.nb[i])

\* w_ij: 0 for a pair that is not a join; 1 under the binary transforms
\* ("O", "b"); 1 / card(i) under "r"
Weight(w, i, j) ==
  IF j \notin w.nb[i] THEN Rat(0, 1)
  ELSE IF w.transform = "r" THEN Rat(1, Card(w, i))
  ELSE Rat(1, 1)
Islands(w) == {i \in 1..w.n : w.nb[i] = {}}

\* w.s0: the sum of all weights.  Binary: one per ordered neighbour pair;
\* row-standardized: every row with neighbours sums to 1.
S0RowStd(w) == w.n - Cardinality(Islands(w))
S0Binary(w) == SumSet([i \in 1..w.n |-> Card(w, i)], 1..w.n)
S0(w) == IF w.transform = "r" THEN S0RowStd(w) ELSE S0Binary(w)

\* the unordered neighbour pairs (i, j), i < j
Joins(w) == {p \in (1..w.n) \X (1..w.n) : p[1] < p[2] /\ p[2] \in w.nb[p[1]]}

(* ---------------------------- join counts ----------------------------- *)
\* y.median(), doubled to stay in the integers: the middle value, or the
\* sum of the two middle values
RECURSIVE SortedSeq(_)
SortedSeq(s) ==
  IF Len(s) = 0 THEN << >>
  ELSE LET m == CHOOSE i \in DOMAIN s : \A j \in DOMAIN s : s[i] <= s[j]
           rest == [k \in 1..(Len(s) - 1) |-> IF k < m THEN s[k] ELSE s[k + 1]]
       IN <<s[m]>> \o SortedSeq(rest)

Median2(s) ==
  LET t == SortedSeq(s)
      n == Len(s)
  IN IF n % 2 = 1 THEN 2 * t[(n + 1) \div 2]
     ELSE t[n \div 2] + t[n \div 2 + 1]

\* variant: y >= y.median()
AboveAtLeast(s) == [k \in 1..Len(s) |-> 2 * s[k] >= Median2(s)]

\* y > y.median()
Above(s) == [k \in 1..Len(s) |-> 2 * s[k] > Median2(s)]

\* labels = ["0 Low", "1 High"]; [labels[i] for i in 1*yb]
Labels(b) == [k \in 1..Len(b) |-> IF b[k] THEN "1 High" ELSE "0 Low"]

\* variant: the median itself counted as high
BinarizeAtLeast(s) == [k \in 1..Len(s) |-> IF 2 * s[k] >= Median2(s) THEN 1 ELSE 0]

\* yb = 1 * (y > y.median())
Binarize(s) == [k \in 1..Len(s) |-> IF 2 * s[k] > Median2(s) THEN 1 ELSE 0]

\* Join_Counts.__calc(z): over the adjacency list (both directions of every
\* join), focal == neighbor splits like from unlike joins; halves undo the
\* double count
DirectedPairs(nb, n) == UNION {{<<i, j>> : j \in nb[i]} : i \in 1..n}

\* variant: BB taken from the focal label alone
JoinCountsCalcUnlikeAsLike(z, nb, n) ==
  LET adj == DirectedPairs(nb, n)
      bb2 == Cardinality({p \in adj : z[p[1]] = 1})
      ww2 == Cardinality({p \in adj : z[p[1]] = 0 /\ z[p[2]] = 0})
      bw2 == Cardinality({p \in adj : z[p[1]] # z[p[2]]})
  IN [bb |-> bb2 \div 2, ww |-> ww2 \div 2, bw |-> bw2 \div 2]

\* variant: the unlike joins taken from the black focal units alone
JoinCountsCalcHalfBW(z, nb, n) ==
  LET adj == DirectedPairs(nb, n)
      bb2 == Cardinality({p \in adj : z[p[1]] = z[p[2]] /\ z[p[1]] = 1})
      ww2 == Cardinality({p \in adj : z[p[1]] = z[p[2]] /\ z[p[1]] = 0})
      bw2 == Cardinality({p \in adj : z[p[1]] = 1 /\ z[p[2]] = 0})
  IN [bb |-> bb2 \div 2, ww |-> ww2 \div 2, bw |-> bw2 \div 2]

JoinCountsCalc(z, nb, n) ==
  LET adj == DirectedPairs(nb, n)
      bb2 == Cardinality({p \in adj : z[p[1]] = z[p[2]] /\ z[p[1]] = 1})
      ww2 == Cardinality({p \in adj : z[p[1]] = z[p[2]] /\ z[p[1]] = 0})
      bw2 == Cardinality({p \in adj : z[p[1]] # z[p[2]]})
  IN [bb |-> bb2 \div 2, ww |-> ww2 \div 2, bw |-> bw2 \div 2]

\* Join_Counts.__pseudop(sim, jc): larger = sum(sim >= jc);
\* psim = (larger + 1) / (permutations + 1)
Larger(sim, obs) == Cardinality({t \in DOMAIN sim : sim[t] >= obs})

\* variant: the lower tail
PseudoPLowTail(sim, obs, permutations) ==
  [num |-> Cardinality({t \in DOMAIN sim : sim[t] <= obs}) + 1, den |-> permutations + 1]

\* variant: strictly greater
PseudoPStrict(sim, obs, permutations) ==
  [num |-> Cardinality({t \in DOMAIN sim : sim[t] > obs}) + 1, den |-> permutations + 1]

\* variant: the observed value not counted
PseudoPNoPlusOne(sim, obs, permutations) ==
  [num |-> Cardinality({t \in DOMAIN sim : sim[t] >= obs}), den |-> permutations]

PseudoP(sim, obs, permutations) ==
  [num |-> Larger(sim, obs) + 1, den |-> permutations + 1]

NoJC == [done |-> FALSE, status |-> "none", bb |-> 0, ww |-> 0, bw |-> 0,
         sim |-> << >>, p_sim_bb |-> [num |-> 0, den |-> 1]]

\* variant: only a vector that is too short is refused
AlignedAtLeast(v, w) == Len(v) >= w.n

\* the vector has one value per unit of w.  The tests pair the values with
\* w.id_order (Join_Counts) or multiply them by w.sparse (Moran); either
\* raises ValueError when the lengths differ
Aligned(v, w) == Len(v) = w.n

SimBB(j) == [t \in DOMAIN j.sim |-> j.sim[t].bb]

\* esda.join_counts.Join_Counts(yb, w, permutations): the observed counts,
\* then one __calc per np.random.permutation(y), then the pseudo p-value
\* The first __calc raises when y and w differ in length: no object is
\* built (status "error").
Join_Counts(z, w, permutations, r) ==
  LET obs == JoinCountsCalc(z, w.nb, w.n)
      sim == [t \in 1..permutations |->
                JoinCountsCalc(Permutation(z, AtTrial(r, Len(z), t)), w.nb, w.n)]
      simbb == [t \in 1..permutations |-> sim[t].bb]
  IN IF ~Aligned(z, w) THEN [NoJC EXCEPT !.done = TRUE, !.status = "error"]
     ELSE [done |-> TRUE, status |-> "ok", bb |-> obs.bb, ww |-> obs.ww, bw |-> obs.bw,
           sim |-> sim, p_sim_bb |-> PseudoP(simbb, obs.bb, permutations)]

\* the generator after Join_Counts(z, w, permutations): a call that raised
\* has drawn nothing
AfterTest(v, w, permutations, r) ==
  IF Aligned(v, w) THEN AtTrial(r, Len(v), permutations + 1) ELSE r

(* ------------------------------ Moran's I ----------------------------- *)
\* lps.weights.lag_spatial(w, y) = w.sparse * y, row k.  A unit without
\* neighbours has an all-zero row: its lag is 0.0
Lag(w, v) ==
  [k \in 1..w.n |->
     LET s == SumSet(v, w.nb[k])
     IN IF w.nb[k] = {} THEN Rat(0, 1)
        ELSE IF w.transform = "r" THEN Rat(s, Card(w, k)) ELSE Rat(s, 1)]

\* z = y - y.mean(), scaled by n to stay in the integers
Centered(v) == [k \in 1..Len(v) |-> Len(v) * v[k] - SumSeq(v)]
Z2ss(z) == SumSet([k \in DOMAIN z |-> z[k] * z[k]], DOMAIN z)

\* a common multiple of the row sums' denominators
CardProd(w) == ProdSet([i \in 1..w.n |-> IF Card(w, i) = 0 THEN 1 ELSE Card(w, i)], 1..w.n)

\* inum = (z * slag(w, z)).sum() under row-standardized weights, times
\* CardProd(w)
INum(z, w) ==
  SumSet([i \in 1..w.n |->
            IF Card(w, i) = 0 THEN 0
            ELSE (CardProd(w) \div Card(w, i)) * z[i] * SumSet(z, w.nb[i])],
         1..w.n)

\* Moran.__calc(z): self.n / self.w.s0 * inum / self.z2ss, with z2ss the
\* observed sum of squares.  A zero s0 or a zero z2ss makes the quotient
\* nan (inum is 0 in both cases); numpy warns and returns it.
\* variant: the cross-product ratio without the n / s0 factor
MoranCalcUnscaled(z, w, z2ss) ==
  FDiv(INum(z, w), CardProd(w) * z2ss)

MoranCalc(z, w, z2ss) ==
  FDiv(w.n * INum(z, w), S0RowStd(w) * CardProd(w) * z2ss)

\* Moran's p_sim: larger = (sim >= I).sum(); the smaller of larger and
\* permutations - larger is the count
MoranLarger(sim, I) == Cardinality({t \in DOMAIN sim : FGe(sim[t], I)})

\* variant: the upper-tail count kept as it is
MoranNoFold(larger, permutations) == larger

MoranFold(larger, permutations) ==
  IF permutations - larger < larger THEN permutations - larger ELSE larger

MoranPSim(sim, I, permutations) ==
  [num |-> MoranFold(MoranLarger(sim, I), permutations) + 1, den |-> permutations + 1]

\* np.nan among the values
HasNA(v) == \E k \in DOMAIN v : v[k] = NA

NoMI == [done |-> FALSE, status |-> "none", I |-> NaN, sim |-> << >>,
         p_sim |-> [num |-> 0, den |-> 1]]

\* esda.moran.Moran(y, w, permutations): w.transform = "r" is set by the
\* call; the result is computed on the row-standardized weights
\* A vector of another length than w raises in the first __calc (status
\* "error").  A missing value makes y.mean() nan, and with it z, I and every
\* simulated value: the object is built all the same.
Moran(v, w, permutations, r) ==
  LET wr == [w EXCEPT !.transform = "r"]
      z == Centered(v)
      z2 == Z2ss(z)
      I == MoranCalc(z, wr, z2)
      sim == [t \in 1..permutations |->
                MoranCalc(Permutation(z, AtTrial(r, Len(z), t)), wr, z2)]
      nans == [t \in 1..permutations |-> NaN]
  IN IF ~Aligned(v, w) THEN [NoMI EXCEPT !.done = TRUE, !.status = "error"]
     ELSE IF HasNA(v)
       THEN [done |-> TRUE, status |-> "ok", I |-> NaN, sim |-> nans,
             p_sim |-> MoranPSim(nans, NaN, permutations)]
     ELSE [done |-> TRUE, status |-> "ok", I |-> I, sim |-> sim,
           p_sim |-> MoranPSim(sim, I, permutations)]

(* --------------------------- local Moran's I --------------------------- *)
\* variant: the mask left all True, z_no_i = z[:n - 1]
OthersUnmasked(n, i) == [k \in 1..(n - 1) |-> k]

\* z_no_i = z[mask], mask[i] = False: the units other than i, in order
Others(n, i) == [k \in 1..(n - 1) |-> IF k < i THEN k ELSE k + 1]

\* cardinalities.max()
MaxCard(w) ==
  CHOOSE c \in 0..w.n : /\ \A i \in 1..w.n : Card(w, i) <= c
                        /\ (c = 0 \/ \E j \in 1..w.n : Card(w, j) = c)

\* np.random.choice(m, size=size, replace=False) on the stream of seed s at
\* position k: the head of a permutation of the m indices
Choice(m, size, s, k) ==
  LET perm == Shuffle([j \in 1..m |-> j], m, s, k)
  IN [c \in 1..size |-> perm[c]]

\* vec_permutations(max_card, n, permutations, seed): one row of max_card
\* indices into the n - 1 other units per permutation
VecPermutations(max_card, n, permutations, s) ==
  [t \in 1..permutations |->
     Choice(n - 1, max_card, s, (t - 1) * (IF n > 2 THEN n - 2 ELSE 0))]

\* (n - 1) * z_i * (sum of w_ij z_j) / (z * z).sum() under row-standardized
\* weights, z the standardized deviations: the standard deviation cancels,
\* so the value is computed on the deviations d with den = sum of d * d.
\* A constant vector has z = 0 / 0 = nan; a unit without neighbours has a
\* zero lag
LocalStat(n, di, nbsum, card, den) ==
  IF den = 0 THEN NaN
  ELSE IF card = 0 THEN Rat(0, 1)
  ELSE Rat((n - 1) * di * nbsum, card * den)

\* Moran_Local.calc: the observed I_i
LocalCalc(i, d, w, den) == LocalStat(w.n, d[i], SumSet(d, w.nb[i]), Card(w, i), den)

\* _moran_local_crand: z_i times the lag of the values z_no_i[permuted ids]
\* placed on i's neighbours
LocalCrand(i, d, w, den, ids) ==
  LET card == Card(w, i)
      zrand == [k \in 1..card |-> d[Others(w.n, i)[ids[k]]]]
  IN LocalStat(w.n, d[i], SumSeq(zrand), card, den)

\* variant: the sign of the lag alone
QuadsLagOnly(zp, lp) == IF lp THEN 1 ELSE 3

\* Moran_Local.__quads with quads = [1, 2, 3, 4]: zp = z > 0, lp = zl > 0;
\* 1 HH, 2 LH, 3 LL, 4 HL
Quads(zp, lp) ==
  IF zp /\ lp THEN 1
  ELSE IF ~zp /\ lp THEN 2
  ELSE IF ~zp /\ ~lp THEN 3
  ELSE 4

NoLI == [done |-> FALSE, status |-> "none", Is |-> << >>, q |-> << >>,
         sim |-> << >>, p_sim |-> << >>, ids |-> << >>]

\* seed = np.random.randint(12345, 12345000) in crand when no seed is given:
\* one word of the global generator
LocalSeed(r) == Draw(r.seed, r.pos)

\* esda.moran.Moran_Local(y, w, permutations): w.transform = "r" is set by
\* the call; observed I_i and quadrant per unit, then the conditional
\* permutations (the same rows of permuted ids serve every focal unit),
\* then the folded pseudo p-value per unit
Moran_Local(v, w, permutations, r) ==
  LET wr == [w EXCEPT !.transform = "r"]
      n == Len(v)
      d == Centered(v)
      den == IF HasNA(v) THEN 0 ELSE Z2ss(d)
      Is == [i \in 1..n |-> LocalCalc(i, d, wr, den)]
      q == [i \in 1..n |->
              Quads(den # 0 /\ d[i] > 0, den # 0 /\ SumSet(d, wr.nb[i]) > 0)]
      ids == VecPermutations(MaxCard(wr), n, permutations, LocalSeed(r))
      sim == [i \in 1..n |->
                [t \in 1..permutations |-> LocalCrand(i, d, wr, den, ids[t])]]
  IN IF ~Aligned(v, w) THEN [NoLI EXCEPT !.done = TRUE, !.status = "error"]
     ELSE [done |-> TRUE, status |-> "ok", Is |-> Is, q |-> q, sim |-> sim,
           p_sim |-> [i \in 1..n |-> MoranPSim(sim[i], Is[i], permutations)],
           ids |-> ids]

(* --------------------------- the checkerboard -------------------------- *)
\* image = np.zeros(nrows*ncols); image[::2] = 1 (flat index k, 0-based,
\* is unit k + 1)
\* variant: image[:] = 1
ImageAllOnes == [k \in 1..(nrows * ncols) |-> 1]

CheckerImage == [k \in 1..(nrows * ncols) |-> IF (k - 1) % 2 = 0 THEN 1 ELSE 0]

\* image.reshape((nrows, ncols)): flat index k is row k // ncols, column
\* k % ncols
RowOf(u) == (u - 1) \div ncols
ColOf(u) == (u - 1) % ncols
Abs(x) == IF x < 0 THEN -x ELSE x


\* the frame of a test call: the vector it permutes, the realization of the
\* current trial, the values recorded so far and, once computed, the
\* cross-trial statistics (a one-element sequence; << >> before)
NoRun == [phase |-> "idle", kind |-> "none", z |-> << >>, cur |-> << >>, t |-> 0,
          obs |-> << >>, ids |-> << >>, sim |-> << >>, larger |-> << >>,
          p |-> << >>, mean |-> << >>, r0 |-> [seed |-> 0, pos |-> 0]]

\* variant: a default of 1000
CountRound(args) == IF args = << >> THEN PERMUTATIONS + 1 ELSE args[1]

\* permutations=PERMUTATIONS in the tests' signatures: the count a call runs
Count(args) == IF args = << >> THEN PERMUTATIONS ELSE args[1]

\* the kernel of content/06_segregation_analysis.ipynb before its first
\* cell: scag.geoid as read, nothing assigned yet
NoSeg == [pc |-> 0, geoid |-> << >>, county |-> << >>, county_names |-> << >>,
          namer |-> << >>, coastal |-> << >>, inland |-> << >>]

(* ------------------------------ the kernel ----------------------------- *)
VARIABLES
  frame,        \* median_home_value of every row of the data file (NA: missing)
  touch,        \* the pairs of rows whose polygons touch
  permutations, \* the permutation count the tests run with
  warnfilter,   \* the warnings filter: "default" or "ignore"
  shown,        \* the warnings displayed so far
  san_diego,    \* the rows of the san_diego frame, in order
  wq,           \* the weights object
  y,            \* san_diego['median_home_value']
  ylag,         \* lag_spatial(wq, y)
  image,        \* the checkerboard
  yb,           \* the binary labels
  jc,           \* the Join_Counts result
  mi,           \* the Moran result
  rng,          \* the global numpy generator: [seed, pos]
  pc,           \* cells executed top to bottom so far
  reruns,       \* re-executions so far
  reran,        \* the test cells re-executed so far
  li,           \* the Moran_Local result
  given,        \* the permutations argument of a test call: << >> when none is given
  run,          \* the frame of the test call that is executing
  seg           \* the kernel of the segregation notebook: county, namer, ...

vars == <<frame, touch, permutations, warnfilter, shown, san_diego, wq, y, ylag,
          image, yb, jc, mi, rng, pc, reruns, reran, li, given, run, seg>>

\* the code cells that change the kernel's state, top to bottom
Cells == <<"Warnings", "Load", "Dropna", "Weights", "Lag", "Image", "Above", "Labels",
           "JoinCounts",
           "TransformR", "Y", "Moran", "Seed", "Lag2", "MoranLocal">>
Pos(c) == CHOOSE i \in DOMAIN Cells : Cells[i] = c

\* the cells that seed or draw from the generator: their re-execution is
\* explored; the other cells run once, top to bottom
Rerunnable == {"JoinCounts", "Moran", "Seed", "MoranLocal"}

\* a cell runs when it is the next one, or again after the notebook has
\* run to its end
CanRun(c) ==
  pc = Pos(c) - 1 \/ (c \in Rerunnable /\ pc = Len(Cells) /\ reruns < MaxReruns)
Ran(c) ==
  /\ pc' = IF pc = Pos(c) - 1 THEN Pos(c) ELSE pc
  /\ reruns' = IF pc = Pos(c) - 1 THEN reruns ELSE reruns + 1
  /\ reran' = IF pc >= Pos(c) /\ c \in {"JoinCounts", "Moran", "MoranLocal"}
            THEN reran \cup {c} ELSE reran

\* a fresh kernel; the data file holds at least two rows with a value.
\* Contiguity is drawn among the rows with a value: the weights are built
\* from san_diego after its dropna, which holds no other row
Init ==
  /\ frame \in [Rows -> Values \cup {NA}]
  /\ Cardinality({r \in Rows : frame[r] # NA}) >= 2
  /\ touch \in SUBSET {p \in AllPairs : \A r \in p : frame[r] # NA}
  /\ permutations = MaxPerms
  /\ warnfilter = "default"
  /\ shown = {}
  /\ san_diego = << >>
  /\ wq = NoW
  /\ y = << >>
  /\ ylag = << >>
  /\ image = << >>
  /\ yb = << >>
  /\ jc = NoJC
  /\ mi = NoMI
  /\ rng \in {Seeded(e) : e \in Entropy}
  /\ pc = 0
  /\ reruns = 0
  /\ reran = {}
  /\ li = NoLI
  /\ given = <<permutations>>
  /\ run = NoRun
  /\ seg = NoSeg

\* warnings.simplefilter("ignore")
CellWarnings ==
  /\ CanRun("Warnings")
  /\ warnfilter' = "ignore"
  /\ Ran("Warnings")
  /\ UNCHANGED <<frame, touch, permutations, shown, san_diego, wq, y, ylag, image,
                 yb, jc, mi, rng,
                 li, given, run, seg>>

\* scag = gpd.read_parquet(...); san_diego = scag[scag.geoid.str[:5]=='06073']
CellLoad ==
  /\ CanRun("Load")
  /\ san_diego' = [k \in 1..MaxRows |-> k]
  /\ Ran("Load")
  /\ UNCHANGED <<frame, touch, permutations, warnfilter, shown, wq, y, ylag, image,
                 yb, jc, mi, rng,
                 li, given, run, seg>>

RECURSIVE SelectSeq2(_, _)
\* the rows of df that satisfy keep, in order
SelectSeq2(df, keep) ==
  IF df = << >> THEN << >>
  ELSE (IF keep[Head(df)] THEN <<Head(df)>> ELSE << >>) \o SelectSeq2(Tail(df), keep)

\* df.dropna(subset=[col])
Dropna(df, col) == SelectSeq2(df, [r \in Rows |-> col[r] # NA])

\* san_diego = san_diego.dropna(subset=['median_home_value'])
CellDropna ==
  /\ CanRun("Dropna")
  /\ san_diego' = Dropna(san_diego, frame)
  /\ Ran("Dropna")
  /\ UNCHANGED <<frame, touch, permutations, warnfilter, shown, wq, y, ylag, image,
                 yb, jc, mi, rng,
                 li, given, run, seg>>

\* the W constructor warns about units without neighbours; the filter
\* decides whether the warning is displayed
Warned(w) ==
  IF Islands(w) # {} /\ warnfilter # "ignore" THEN shown \cup {"islands"} ELSE shown

\* wq = lps.weights.Queen.from_dataframe(san_diego); wq.transform = 'r'
CellWeights ==
  /\ CanRun("Weights")
  /\ wq' = [QueenFromDataframe(san_diego, touch) EXCEPT !.transform = "r"]
  /\ shown' = Warned(wq')
  /\ Ran("Weights")
  /\ UNCHANGED <<frame, touch, permutations, warnfilter, san_diego, y, ylag, image,
                 yb, jc, mi, rng,
                 li, given, run, seg>>

\* variant: the column of the frame as it was loaded
ColumnRaw(df, col) == [k \in 1..MaxRows |-> col[k]]

\* san_diego['median_home_value']
Column(df, col) == [k \in 1..Len(df) |-> col[df[k]]]

\* y = san_diego['median_home_value']; ylag = lps.weights.lag_spatial(wq, y)
CellLag ==
  /\ CanRun("Lag")
  /\ y' = Column(san_diego, frame)
  /\ ylag' = Lag(wq, y')
  /\ Ran("Lag")
  /\ UNCHANGED <<frame, touch, permutations, warnfilter, shown, san_diego, wq, image,
                 yb, jc, mi, rng,
                 li, given, run, seg>>

\* nrows, ncols = 9,9; image = np.zeros(nrows*ncols); image[::2] = 1
CellImage ==
  /\ CanRun("Image")
  /\ image' = CheckerImage
  /\ Ran("Image")
  /\ UNCHANGED <<frame, touch, permutations, warnfilter, shown, san_diego, wq, y, ylag,
                 yb, jc, mi, rng,
                 li, given, run, seg>>

\* yb = y > y.median(); sum(yb)
CellAbove ==
  /\ CanRun("Above")
  /\ yb' = Above(y)
  /\ Ran("Above")
  /\ UNCHANGED <<frame, touch, permutations, warnfilter, shown, san_diego, wq, y, ylag,
                 image, jc, mi, rng, li, given, run, seg>>

\* yb = y > y.median(); yb = [labels[i] for i in 1*yb]; san_diego['yb'] = yb
CellLabels ==
  /\ CanRun("Labels")
  /\ yb' = Labels(Above(y))
  /\ Ran("Labels")
  /\ UNCHANGED <<frame, touch, permutations, warnfilter, shown, san_diego, wq, y, ylag,
                 image, jc, mi, rng, li, given, run, seg>>

\* variant: the cell without its np.random.seed call
NoSeed(r) == r

\* np.random.seed(12345) in the Join_Counts cell
JoinCountsSeed(r) == Seeded(SEED)

\* variant: the weights left row-standardized
JoinCountsTransformR(w) == [w EXCEPT !.transform = "r"]

\* wq.transform = 'b' in the Join_Counts cell
JoinCountsTransform(w) == [w EXCEPT !.transform = "b"]

\* yb = 1 * (y > y.median()); wq = Queen.from_dataframe(san_diego);
\* wq.transform = 'b'; np.random.seed(12345); jc = Join_Counts(yb, wq)
CellJoinCounts ==
  /\ CanRun("JoinCounts")
  /\ yb' = Binarize(y)
  /\ wq' = JoinCountsTransform(QueenFromDataframe(san_diego, touch))
  /\ shown' = Warned(wq')
  /\ jc' = Join_Counts(yb', wq', permutations, JoinCountsSeed(rng))
  /\ rng' = AfterTest(yb', wq', permutations, JoinCountsSeed(rng))
  /\ Ran("JoinCounts")
  /\ UNCHANGED <<frame, touch, permutations, warnfilter, san_diego, y, ylag, image, mi,
                 li, given, run, seg>>

\* variant: the cell left out
CellTransformSkipped ==
  /\ CanRun("TransformR")
  /\ Ran("TransformR")
  /\ UNCHANGED <<frame, touch, permutations, warnfilter, shown, san_diego, wq, y, ylag,
                 image, yb, jc, mi, rng, li, given, run, seg>>

\* wq.transform = 'r'
CellTransformR ==
  /\ CanRun("TransformR")
  /\ wq' = [wq EXCEPT !.transform = "r"]
  /\ Ran("TransformR")
  /\ UNCHANGED <<frame, touch, permutations, warnfilter, shown, san_diego, y, ylag,
                 image, yb, jc, mi, rng,
                 li, given, run, seg>>

\* y = san_diego['median_home_value']
CellY ==
  /\ CanRun("Y")
  /\ y' = Column(san_diego, frame)
  /\ Ran("Y")
  /\ UNCHANGED <<frame, touch, permutations, warnfilter, shown, san_diego, wq, ylag,
                 image, yb, jc, mi, rng,
                 li, given, run, seg>>

\* np.random.seed(12345) in the Moran cell
MoranSeed(r) == Seeded(SEED)

\* np.random.seed(12345); mi = esda.moran.Moran(y, wq)
CellMoran ==
  /\ CanRun("Moran")
  /\ mi' = Moran(y, wq, permutations, MoranSeed(rng))
  /\ wq' = [wq EXCEPT !.transform = "r"]
  /\ rng' = AfterTest(y, wq, permutations, MoranSeed(rng))
  /\ Ran("Moran")
  /\ UNCHANGED <<frame, touch, permutations, warnfilter, shown, san_diego, y, ylag,
                 image, yb, jc,
                 li, given, run, seg>>

\* np.random.seed(12345)
CellSeed ==
  /\ CanRun("Seed")
  /\ rng' = Seeded(SEED)
  /\ Ran("Seed")
  /\ UNCHANGED <<frame, touch, permutations, warnfilter, shown, san_diego, wq, y, ylag,
                 image, yb, jc, mi,
                 li, given, run, seg>>

\* wq.transform = 'r'; lag_price = lag_spatial(wq, san_diego['median_home_value'])
CellLag2 ==
  /\ CanRun("Lag2")
  /\ wq' = [wq EXCEPT !.transform = "r"]
  /\ ylag' = Lag(wq', Column(san_diego, frame))
  /\ Ran("Lag2")
  /\ UNCHANGED <<frame, touch, permutations, warnfilter, shown, san_diego, y, image,
                 yb, jc, mi, rng,
                 li, given, run, seg>>

\* li = esda.moran.Moran_Local(y, wq)
CellMoranLocal ==
  /\ CanRun("MoranLocal")
  /\ li' = Moran_Local(y, wq, permutations, rng)
  /\ wq' = [wq EXCEPT !.transform = "r"]
  /\ rng' = [rng EXCEPT !.pos = rng.pos + 1]
  /\ Ran("MoranLocal")
  /\ UNCHANGED <<frame, touch, permutations, warnfilter, shown, san_diego, y, ylag,
                 image, yb, jc, mi, given, run, seg>>

Next ==
  \/ CellWarnings
  \/ CellLoad
  \/ CellDropna
  \/ CellWeights
  \/ CellLag
  \/ CellImage
  \/ CellAbove
  \/ CellLabels
  \/ CellJoinCounts
  \/ CellTransformR
  \/ CellY
  \/ CellMoran
  \/ CellSeed
  \/ CellLag2
  \/ CellMoranLocal

Spec == Init /\ [][Next]_vars

(* ------------------- the tests on inputs of any shape ------------------ *)
\* every binary contiguity structure over n units: symmetric, no self-loops
WeightsOver(n) ==
  {[n |-> n,
    nb |-> [k \in 1..n |-> {l \in 1..n : l # k /\ {k, l} \in t}],
    transform |-> "b"] : t \in SUBSET {e \in SUBSET (1..n) : Cardinality(e) = 2}}

\* a weights structure, a permutation count and a seeded generator
TestInit ==
  /\ wq \in UNION {WeightsOver(n) : n \in 2..MaxUnits}
  /\ permutations \in 1..MaxPerms
  /\ rng \in {Seeded(e) : e \in Entropy}
  /\ frame = [r \in Rows |-> NA]
  /\ touch = {}
  /\ warnfilter = "default"
  /\ shown = {}
  /\ san_diego = << >>
  /\ y = << >>
  /\ ylag = << >>
  /\ image = << >>
  /\ yb = << >>
  /\ jc = NoJC
  /\ mi = NoMI
  /\ pc = 0
  /\ reruns = 0
  /\ reran = {}
  /\ li = NoLI
  /\ given = <<permutations>>
  /\ run = NoRun
  /\ seg = NoSeg

\* jc = esda.join_counts.Join_Counts(yb, wq) on any binary label vector
TestJoinCounts ==
  /\ ~jc.done /\ ~mi.done /\ ~li.done
  /\ \E z \in [1..wq.n -> {0, 1}] :
       /\ yb' = z
       /\ jc' = Join_Counts(z, wq, permutations, rng)
  /\ rng' = AfterTest(yb', wq, permutations, rng)
  /\ UNCHANGED <<frame, touch, permutations, warnfilter, shown, san_diego, wq, y,
                 ylag, image, mi, pc, reruns, reran,
                 li, given, run, seg>>

\* mi = esda.moran.Moran(y, wq) on any attribute vector
TestMoran ==
  /\ ~jc.done /\ ~mi.done /\ ~li.done
  /\ wq.n <= MaxMoranUnits
  /\ \E v \in [1..wq.n -> Values] :
       /\ y' = v
       /\ mi' = Moran(v, wq, permutations, rng)
  /\ wq' = [wq EXCEPT !.transform = "r"]
  /\ rng' = AfterTest(y', wq, permutations, rng)
  /\ UNCHANGED <<frame, touch, permutations, warnfilter, shown, san_diego, ylag,
                 image, yb, jc, pc, reruns, reran,
                 li, given, run, seg>>

\* li = esda.moran.Moran_Local(y, wq) on any attribute vector
TestMoranLocal ==
  /\ ~jc.done /\ ~mi.done /\ ~li.done
  /\ wq.n <= MaxMoranUnits
  /\ \E v \in [1..wq.n -> Values] :
       /\ y' = v
       /\ li' = Moran_Local(v, wq, permutations, rng)
  /\ wq' = [wq EXCEPT !.transform = "r"]
  /\ rng' = [rng EXCEPT !.pos = rng.pos + 1]
  /\ UNCHANGED <<frame, touch, permutations, warnfilter, shown, san_diego, ylag,
                 image, yb, jc, mi, pc, reruns, reran, given, run, seg>>

TestNext == TestJoinCounts \/ TestMoran \/ TestMoranLocal

SpecTest == TestInit /\ [][TestNext]_vars

(* ---------------- the tests called with arguments of any shape --------- *)
\* the vectors of 1 to MaxLen values drawn from S
Vectors(S) == UNION {[1..k -> S] : k \in 1..MaxLen}

\* a weights structure, a seeded generator and the permutations argument
\* the calls are made with (none, or a count)
CallInit ==
  /\ wq \in UNION {WeightsOver(n) : n \in 2..MaxCallUnits}
  /\ given \in {<< >>} \cup {<<k>> : k \in 1..MaxPerms}
  /\ given = << >> => wq.n <= MaxDefaultUnits
  /\ permutations = Count(given)
  /\ rng \in {Seeded(e) : e \in Entropy}
  /\ frame = [r \in Rows |-> NA]
  /\ touch = {}
  /\ warnfilter = "default"
  /\ shown = {}
  /\ san_diego = << >>
  /\ y = << >>
  /\ ylag = << >>
  /\ image = << >>
  /\ yb = << >>
  /\ jc = NoJC
  /\ mi = NoMI
  /\ pc = 0
  /\ reruns = 0
  /\ reran = {}
  /\ li = NoLI
  /\ run = NoRun
  /\ seg = NoSeg

\* jc = esda.join_counts.Join_Counts(yb, wq[, permutations]) on a label
\* vector of any length; the call sets w.transformation = "b" first
CallJoinCounts ==
  /\ ~jc.done /\ ~mi.done
  /\ \E z \in Vectors({0, 1}) :
       /\ yb' = z
       /\ jc' = Join_Counts(z, wq, Count(given), rng)
       /\ rng' = AfterTest(z, wq, Count(given), rng)
  /\ UNCHANGED <<frame, touch, permutations, warnfilter, shown, san_diego, wq, y,
                 ylag, image, mi, pc, reruns, reran, li, given, run, seg>>

\* mi = esda.moran.Moran(y, wq[, permutations=...]) on a vector of any
\* length, missing values included; the call sets w.transform = "r" first
CallMoran ==
  /\ ~jc.done /\ ~mi.done
  /\ \E v \in Vectors(Values \cup {NA}) :
       /\ y' = v
       /\ mi' = Moran(v, wq, Count(given), rng)
       /\ rng' = AfterTest(v, wq, Count(given), rng)
  /\ wq' = [wq EXCEPT !.transform = "r"]
  /\ UNCHANGED <<frame, touch, permutations, warnfilter, shown, san_diego, ylag,
                 image, yb, jc, pc, reruns, reran, li, given, run, seg>>

CallNext == CallJoinCounts \/ CallMoran

SpecCall == CallInit /\ [][CallNext]_vars

(* --------------------- a test call, statement by statement ------------- *)
\* the sum of two floats
AddRat(a, b) ==
  IF a.nan \/ b.nan THEN NaN
  ELSE IF a.den = b.den THEN Rat(a.num + b.num, a.den)
  ELSE IF b.num = 0 THEN a
  ELSE IF a.num = 0 THEN b
  ELSE Rat(a.num * b.den + b.num * a.den, a.den * b.den)

RECURSIVE SumRat(_, _)
\* the sum of the floats s[t], t in S
SumRat(s, S) ==
  IF S = {} THEN Rat(0, 1)
  ELSE LET t == CHOOSE e \in S : TRUE
       IN CHOOSE r \in {AddRat(s[t], b) : b \in {SumRat(s, S \ {t})}} : TRUE

\* np.mean(sim)
Mean(s) ==
  LET total == SumRat(s, DOMAIN s)
  IN IF total.nan THEN NaN ELSE Rat(total.num, total.den * Len(s))

\* variant: the statistics taken as soon as one value is recorded
SomeRecorded(sim, count) == Len(sim) >= 1

\* the list comprehension over range(permutations) (the loop over the
\* units, in the local test) has run to its end
AllRecorded(sim, count) == Len(sim) = count

\* a weights structure and a seeded generator; the calls run MaxPerms
\* permutations
LoopInit ==
  /\ wq \in UNION {WeightsOver(n) : n \in 2..MaxMoranUnits}
  /\ permutations = MaxPerms
  /\ given = <<permutations>>
  /\ rng \in {Seeded(e) : e \in Entropy}
  /\ frame = [r \in Rows |-> NA]
  /\ touch = {}
  /\ warnfilter = "default"
  /\ shown = {}
  /\ san_diego = << >>
  /\ y = << >>
  /\ ylag = << >>
  /\ image = << >>
  /\ yb = << >>
  /\ jc = NoJC
  /\ mi = NoMI
  /\ pc = 0
  /\ reruns = 0
  /\ reran = {}
  /\ li = NoLI
  /\ run = NoRun
  /\ seg = NoSeg

\* Join_Counts.__init__ up to the observed counts: w.transformation = "b";
\* results = self.__calc(self.y)
LoopJoinCounts ==
  /\ run.phase = "idle"
  /\ \E z \in [1..wq.n -> {0, 1}] :
       /\ yb' = z
       /\ run' = [NoRun EXCEPT !.phase = "trials", !.kind = "join", !.z = z, !.cur = z,
                               !.obs = <<JoinCountsCalc(z, wq.nb, wq.n)>>, !.r0 = rng]
  /\ wq' = [wq EXCEPT !.transform = "b"]
  /\ UNCHANGED <<frame, touch, permutations, warnfilter, shown, san_diego, y, ylag,
                 image, jc, mi, rng, pc, reruns, reran, li, given, seg>>

\* Moran.__init__ up to the observed I: w.transform = "r"; __moments();
\* self.I = self.__calc(self.z)
LoopMoran ==
  /\ run.phase = "idle"
  /\ \E v \in [1..wq.n -> Values] :
       /\ y' = v
       /\ run' = [NoRun EXCEPT !.phase = "trials", !.kind = "moran",
                               !.z = Centered(v), !.cur = Centered(v),
                               !.obs = <<MoranCalc(Centered(v), [wq EXCEPT !.transform = "r"],
                                                  Z2ss(Centered(v)))>>,
                               !.r0 = rng]
  /\ wq' = [wq EXCEPT !.transform = "r"]
  /\ UNCHANGED <<frame, touch, permutations, warnfilter, shown, san_diego, ylag,
                 image, yb, jc, mi, rng, pc, reruns, reran, li, given, seg>>

\* a test called with a vector that has one value too few: the transform
\* is set, the first __calc raises, no trial runs
LoopRaise ==
  /\ run.phase = "idle"
  /\ \E kind \in {"join", "moran"} :
       \E v \in [1..(wq.n - 1) -> {0, 1}] :
         /\ run' = [NoRun EXCEPT !.phase = "error", !.kind = kind, !.z = v, !.r0 = rng]
         /\ wq' = [wq EXCEPT !.transform = IF kind = "join" THEN "b" ELSE "r"]
         /\ yb' = IF kind = "join" THEN v ELSE yb
         /\ y' = IF kind = "moran" THEN v ELSE y
         /\ jc' = IF kind = "join" THEN Join_Counts(v, wq, permutations, rng) ELSE jc
         /\ mi' = IF kind = "moran" THEN Moran(v, wq, permutations, rng) ELSE mi
  /\ UNCHANGED <<frame, touch, permutations, warnfilter, shown, san_diego, ylag,
                 image, rng, pc, reruns, reran, li, given, seg>>

\* variant: one turn too many
MoreTrialsInclusive(t, count) == t <= count

\* range(permutations) is not exhausted after t turns
MoreTrials(t, count) == t < count

\* the statistic of one realization
LoopStat(kind, cur, z, w) ==
  IF kind = "join" THEN JoinCountsCalc(cur, w.nb, w.n)
  ELSE MoranCalc(cur, w, Z2ss(z))

\* one turn of sim = [self.__calc(np.random.permutation(...)) for i in
\* range(permutations)]
LoopTrial ==
  /\ run.phase = "trials"
  /\ MoreTrials(run.t, permutations)
  /\ \E cur \in {Permutation(run.z, rng)} :
       \E stat \in {LoopStat(run.kind, cur, run.z, wq)} :
         run' = [run EXCEPT !.t = run.t + 1, !.cur = cur, !.sim = Append(run.sim, stat)]
  /\ rng' = AtTrial(rng, Len(run.z), 2)
  /\ UNCHANGED <<frame, touch, permutations, warnfilter, shown, san_diego, wq, y, ylag,
                 image, yb, jc, mi, pc, reruns, reran, li, given, seg>>

\* after the loop: p_sim_bb and mean_bb (Join_Counts); p_sim and EI_sim
\* (Moran); the constructor returns
LoopFinish ==
  /\ run.phase = "trials"
  /\ AllRecorded(run.sim, permutations)
  /\ LET simbb == [t \in DOMAIN run.sim |-> run.sim[t].bb]
     IN \E p \in {IF run.kind = "join" THEN PseudoP(simbb, run.obs[1].bb, permutations)
                  ELSE MoranPSim(run.sim, run.obs[1], permutations)} :
          \E mean \in {IF run.kind = "join" THEN Rat(SumSeq(simbb), Len(simbb))
                       ELSE Mean(run.sim)} :
            /\ run' = [run EXCEPT !.phase = "done", !.p = <<p>>, !.mean = <<mean>>]
            /\ jc' = IF run.kind # "join" THEN jc
                     ELSE [done |-> TRUE, status |-> "ok", bb |-> run.obs[1].bb,
                           ww |-> run.obs[1].ww, bw |-> run.obs[1].bw,
                           sim |-> run.sim, p_sim_bb |-> p]
            /\ mi' = IF run.kind # "moran" THEN mi
                     ELSE [done |-> TRUE, status |-> "ok", I |-> run.obs[1],
                           sim |-> run.sim, p_sim |-> p]
  /\ UNCHANGED <<frame, touch, permutations, warnfilter, shown, san_diego, wq, y, ylag,
                 image, yb, rng, pc, reruns, reran, li, given, seg>>

\* Moran_Local.__init__ up to the conditional permutations: w.transform =
\* "r"; the observed I_i; crand draws its seed and the permuted ids of every
\* trial
LoopLocal ==
  /\ run.phase = "idle"
  /\ \E v \in [1..wq.n -> Values] :
       LET wr == [wq EXCEPT !.transform = "r"]
           d == Centered(v)
       IN /\ y' = v
          /\ run' = [NoRun EXCEPT !.phase = "units", !.kind = "local", !.z = d, !.cur = d,
                                  !.obs = [i \in 1..wq.n |-> LocalCalc(i, d, wr, Z2ss(d))],
                                  !.ids = VecPermutations(MaxCard(wr), wq.n, permutations,
                                                          LocalSeed(rng)),
                                  !.r0 = rng]
  /\ wq' = [wq EXCEPT !.transform = "r"]
  /\ rng' = [rng EXCEPT !.pos = rng.pos + 1]
  /\ UNCHANGED <<frame, touch, permutations, warnfilter, shown, san_diego, ylag,
                 image, yb, jc, mi, pc, reruns, reran, li, given, seg>>

\* one turn of compute_chunk's loop over the units: rstats, the values of
\* every trial at unit i, kept in rlocals[i]; larger[i] = np.sum(rstats >=
\* observed[i])
LoopUnit ==
  /\ run.phase = "units"
  /\ run.t < wq.n
  /\ LET i == run.t + 1
     IN \E rstats \in {[t \in 1..permutations |->
                          LocalCrand(i, run.z, wq, Z2ss(run.z), run.ids[t])]} :
          run' = [run EXCEPT !.t = i, !.sim = Append(run.sim, rstats),
                             !.larger = Append(run.larger, MoranLarger(rstats, run.obs[i]))]
  /\ UNCHANGED <<frame, touch, permutations, warnfilter, shown, san_diego, wq, y, ylag,
                 image, yb, jc, mi, rng, pc, reruns, reran, li, given, seg>>

\* after the loop: larger folded and p_sim = (larger + 1) / (permutations +
\* 1) per unit; EI_sim = sim.mean(axis=0) at first access
LoopFinishLocal ==
  /\ run.phase = "units"
  /\ AllRecorded(run.sim, wq.n)
  /\ \E p \in {[i \in DOMAIN run.larger |->
                  [num |-> MoranFold(run.larger[i], permutations) + 1,
                   den |-> permutations + 1]]} :
       \E q \in {[i \in 1..wq.n |->
                    Quads(Z2ss(run.z) # 0 /\ run.z[i] > 0,
                          Z2ss(run.z) # 0 /\ SumSet(run.z, wq.nb[i]) > 0)]} :
         /\ run' = [run EXCEPT !.phase = "done", !.p = <<p>>,
                               !.mean = <<[i \in DOMAIN run.sim |-> Mean(run.sim[i])]>>]
         /\ li' = [done |-> TRUE, status |-> "ok", Is |-> run.obs, q |-> q,
                   sim |-> run.sim, p_sim |-> p, ids |-> run.ids]
  /\ UNCHANGED <<frame, touch, permutations, warnfilter, shown, san_diego, wq, y, ylag,
                 image, yb, jc, mi, rng, pc, reruns, reran, given, seg>>

LoopNext ==
  \/ LoopJoinCounts
  \/ LoopRaise
  \/ LoopMoran
  \/ LoopLocal
  \/ LoopTrial
  \/ LoopUnit
  \/ LoopFinish
  \/ LoopFinishLocal

SpecLoop == LoopInit /\ [][LoopNext]_vars

\* the kernel runs a call to its end: a statement that can run does run
FairSpecLoop == SpecLoop /\ WF_vars(LoopNext)

(* ------------- the trials and the units taken in any order ------------ *)
\* the trials (units) recorded so far; run.sim holds [trial, value] in the
\* order of execution
Taken == {run.sim[k].trial : k \in DOMAIN run.sim}

\* the values by trial (unit) index
ByIndex(recorded) ==
  [t \in 1..Len(recorded) |->
     recorded[CHOOSE k \in DOMAIN recorded : recorded[k].trial = t].value]

\* trial t of a global test, run when the scheduler picks it: it draws its
\* permutation from the shared np.random generator, in the state the
\* trials before it have left
OrderTrial ==
  /\ run.phase = "trials"
  /\ \E t \in (1..permutations) \ Taken :
       LET cur == Permutation(run.z, rng)
       IN run' = [run EXCEPT !.t = run.t + 1, !.cur = cur,
                             !.sim = Append(run.sim,
                                            [trial |-> t,
                                             value |-> LoopStat(run.kind, cur, run.z, wq)])]
  /\ rng' = AtTrial(rng, Len(run.z), 2)
  /\ UNCHANGED <<frame, touch, permutations, warnfilter, shown, san_diego, wq, y, ylag,
                 image, yb, jc, mi, pc, reruns, reran, li, given, seg>>

\* unit i of the local test, run when the scheduler picks it (crand hands
\* chunks of units to joblib workers): the permuted ids were drawn before
OrderUnit ==
  /\ run.phase = "units"
  /\ \E i \in (1..wq.n) \ Taken :
       LET rstats == [t \in 1..permutations |->
                        LocalCrand(i, run.z, wq, Z2ss(run.z), run.ids[t])]
       IN run' = [run EXCEPT !.t = run.t + 1,
                             !.sim = Append(run.sim, [trial |-> i, value |-> rstats]),
                             !.larger = Append(run.larger,
                                               [trial |-> i,
                                                value |-> MoranLarger(rstats, run.obs[i])])]
  /\ UNCHANGED <<frame, touch, permutations, warnfilter, shown, san_diego, wq, y, ylag,
                 image, yb, jc, mi, rng, pc, reruns, reran, li, given, seg>>

\* the statistics of a global test, once every trial is recorded
OrderFinish ==
  /\ run.phase = "trials"
  /\ AllRecorded(run.sim, permutations)
  /\ LET sim == ByIndex(run.sim)
         simbb == [t \in DOMAIN sim |-> sim[t].bb]
         p == IF run.kind = "join" THEN PseudoP(simbb, run.obs[1].bb, permutations)
              ELSE MoranPSim(sim, run.obs[1], permutations)
         mean == IF run.kind = "join" THEN Rat(SumSeq(simbb), Len(simbb))
                 ELSE Mean(sim)
     IN /\ run' = [run EXCEPT !.phase = "done", !.p = <<p>>, !.mean = <<mean>>]
        /\ jc' = IF run.kind # "join" THEN jc
                 ELSE [done |-> TRUE, status |-> "ok", bb |-> run.obs[1].bb,
                       ww |-> run.obs[1].ww, bw |-> run.obs[1].bw,
                       sim |-> sim, p_sim_bb |-> p]
        /\ mi' = IF run.kind # "moran" THEN mi
                 ELSE [done |-> TRUE, status |-> "ok", I |-> run.obs[1],
                       sim |-> sim, p_sim |-> p]
  /\ UNCHANGED <<frame, touch, permutations, warnfilter, shown, san_diego, wq, y, ylag,
                 image, yb, rng, pc, reruns, reran, li, given, seg>>

\* the statistics of the local test, once every unit is recorded
OrderFinishLocal ==
  /\ run.phase = "units"
  /\ AllRecorded(run.sim, wq.n)
  /\ LET sim == ByIndex(run.sim)
         larger == ByIndex(run.larger)
         p == [i \in DOMAIN larger |->
                [num |-> MoranFold(larger[i], permutations) + 1,
                 den |-> permutations + 1]]
         q == [i \in 1..wq.n |->
                 Quads(Z2ss(run.z) # 0 /\ run.z[i] > 0,
                       Z2ss(run.z) # 0 /\ SumSet(run.z, wq.nb[i]) > 0)]
     IN /\ run' = [run EXCEPT !.phase = "done", !.p = <<p>>,
                              !.mean = <<[i \in DOMAIN sim |-> Mean(sim[i])]>>]
        /\ li' = [done |-> TRUE, status |-> "ok", Is |-> run.obs, q |-> q,
                  sim |-> sim, p_sim |-> p, ids |-> run.ids]
  /\ UNCHANGED <<frame, touch, permutations, warnfilter, shown, san_diego, wq, y, ylag,
                 image, yb, jc, mi, rng, pc, reruns, reran, given, seg>>

OrderNext ==
  \/ LoopJoinCounts
  \/ LoopMoran
  \/ LoopLocal
  \/ OrderTrial
  \/ OrderUnit
  \/ OrderFinish
  \/ OrderFinishLocal

SpecOrder == LoopInit /\ [][OrderNext]_vars

(* ------------- content/06_segregation_analysis.ipynb: counties --------- *)
\* county_names = ["Los Angeles", "Imperial", "Orange", "San Bernadino",
\* "San Diego", "Riverside", "Ventura"]
CountyNames == <<"Los Angeles", "Imperial", "Orange", "San Bernadino", "San Diego",
                 "Riverside", "Ventura">>
\* the lists given to isin
CoastalNames == {"Los Angeles", "Orange", "San Diego", "Ventura"}
InlandNames == {"Riverside", "San Bernadino", "Imperial"}

MaxOf(s) == CHOOSE m \in {s[k] : k \in DOMAIN s} : \A k \in DOMAIN s : s[k] <= m

RECURSIVE Files(_)
\* the county codes of a file of n tracts, in file order.  A code is named
\* by the rank of its first appearance in the file (unique, zip, replace
\* and isin use the codes' equality only)
Files(n) ==
  IF n = 1 THEN {<<1>>}
  ELSE UNION {{Append(f, c) : c \in 1..(MaxOf(f) + 1)} : f \in Files(n - 1)}

\* scag.geoid.str[:5]: the county code, a string
StrCounty(geoid) == [k \in DOMAIN geoid |-> ToString(geoid[k])]

RECURSIVE Unique(_)
\* Series.unique(): the distinct values in order of first appearance
Unique(col) ==
  IF Len(col) = 0 THEN << >>
  ELSE LET front == Unique([k \in 1..(Len(col) - 1) |-> col[k]])
           last == col[Len(col)]
       IN IF \E k \in DOMAIN front : front[k] = last THEN front ELSE Append(front, last)

Min2(a, b) == IF a < b THEN a ELSE b

\* variant: the last pair left out
ZipDictShort(keys, values) ==
  LET m == Min2(Len(keys), Len(values)) - 1
  IN [c \in {keys[k] : k \in 1..m} |-> values[CHOOSE k \in 1..m : keys[k] = c]]

\* dict(zip(keys, values)): the pairs up to the shorter length (the keys
\* here are distinct)
ZipDict(keys, values) ==
  LET m == Min2(Len(keys), Len(values))
  IN [c \in {keys[k] : k \in 1..m} |-> values[CHOOSE k \in 1..m : keys[k] = c]]

\* Series.replace(to_replace=d): a value that is a key of d becomes d's
\* value for it; any other value stays
Replace(col, d) == [k \in DOMAIN col |-> IF col[k] \in DOMAIN d THEN d[col[k]] ELSE col[k]]

\* scag[scag.county.isin(names)]: the rows selected, in order
RowsIn(col, names) == SelectSeq([k \in DOMAIN col |-> k], LAMBDA k : col[k] \in names)

\* scag = gpd.read_parquet("data/scag_region.parquet")
SegInit ==
  /\ seg \in {[NoSeg EXCEPT !.geoid = f] : f \in UNION {Files(n) : n \in 1..MaxTracts}}
  /\ frame = [r \in Rows |-> NA]
  /\ touch = {}
  /\ permutations = MaxPerms
  /\ given = <<permutations>>
  /\ warnfilter = "default"
  /\ shown = {}
  /\ san_diego = << >>
  /\ wq = NoW
  /\ y = << >>
  /\ ylag = << >>
  /\ image = << >>
  /\ yb = << >>
  /\ jc = NoJC
  /\ mi = NoMI
  /\ rng = Seeded(0)
  /\ pc = 0
  /\ reruns = 0
  /\ reran = {}
  /\ li = NoLI
  /\ run = NoRun

SegRest == <<frame, touch, permutations, warnfilter, shown, san_diego, wq, y, ylag,
             image, yb, jc, mi, rng, pc, reruns, reran, li, given, run>>

\* scag['county'] = scag.geoid.str[:5]
SegCounty ==
  /\ seg.pc = 0
  /\ seg' = [seg EXCEPT !.pc = 1, !.county = StrCounty(seg.geoid)]
  /\ UNCHANGED SegRest

\* county_names = [...]
SegCountyNames ==
  /\ seg.pc = 1
  /\ seg' = [seg EXCEPT !.pc = 2, !.county_names = CountyNames]
  /\ UNCHANGED SegRest

\* namer = dict(zip(scag.county.unique(), county_names))
SegNamer ==
  /\ seg.pc = 2
  /\ seg' = [seg EXCEPT !.pc = 3, !.namer = ZipDict(Unique(seg.county), seg.county_names)]
  /\ UNCHANGED SegRest

\* scag['county'] = scag.county.replace(to_replace=namer)
SegReplace ==
  /\ seg.pc = 3
  /\ seg' = [seg EXCEPT !.pc = 4, !.county = Replace(seg.county, seg.namer)]
  /\ UNCHANGED SegRest

\* coastal = scag[scag.county.isin(["Los Angeles", "Orange", "San Diego", "Ventura"])]
SegCoastal ==
  /\ seg.pc = 4
  /\ seg' = [seg EXCEPT !.pc = 5, !.coastal = RowsIn(seg.county, CoastalNames)]
  /\ UNCHANGED SegRest

\* inland = scag[scag.county.isin(['Riverside', "San Bernadino", "Imperial"])]
SegInland ==
  /\ seg.pc = 5
  /\ seg' = [seg EXCEPT !.pc = 6, !.inland = RowsIn(seg.county, InlandNames)]
  /\ UNCHANGED SegRest

SegNext ==
  \/ SegCounty
  \/ SegCountyNames
  \/ SegNamer
  \/ SegReplace
  \/ SegCoastal
  \/ SegInland

SpecSeg == SegInit /\ [][SegNext]_vars

(* ------------------------------ properties ----------------------------- *)
LikeJoins(w, z, v) == {p \in Joins(w) : z[p[1]] = v /\ z[p[2]] = v}
UnlikeJoins(w, z) == {p \in Joins(w) : z[p[1]] # z[p[2]]}

\* C1: every neighbour pair (i, j), i < j, is counted in exactly one of BB,
\* WW and BW (both labels 1, both 0, labels differ), so BB + WW + BW is the
\* number of neighbour pairs.
C1_JoinCountsExhaustive ==
  jc.done =>
    /\ jc.bb = Cardinality(LikeJoins(wq, yb, 1))
    /\ jc.ww = Cardinality(LikeJoins(wq, yb, 0))
    /\ jc.bw = Cardinality(UnlikeJoins(wq, yb))
    /\ jc.bb + jc.ww + jc.bw = Cardinality(Joins(wq))

C1_Witness == jc.done /\ jc.bb > 0 /\ jc.ww > 0 /\ jc.bw > 0

\* C2: with binary weights the sum of all weights is twice the number of
\* unordered neighbour pairs; this is the state of wq where the notebook
\* evaluates wq.s0 / 2, right after the Join_Counts cell.
C2_TotalJoinsHalfS0 ==
  /\ wq.transform = "b" => S0(wq) = 2 * Cardinality(Joins(wq))
  /\ pc = Pos("JoinCounts") =>
       /\ S0(wq) = 2 * Cardinality(Joins(wq))
       /\ 2 * (jc.bb + jc.ww + jc.bw) = S0(wq)

C2_Witness ==
  pc = Pos("JoinCounts") /\ Cardinality(Joins(wq)) >= 2 /\ Islands(wq) = {}

InUnitInterval(pv) == 0 < pv.num /\ pv.num <= pv.den

\* C3: the pseudo p-value of a test is greater than 0 and at most 1.
C3_PValueInUnitInterval ==
  /\ jc.done => InUnitInterval(jc.p_sim_bb)
  /\ mi.done => InUnitInterval(mi.p_sim)

C3_Witness == jc.done /\ jc.p_sim_bb.num < jc.p_sim_bb.den

\* the statistic values a test over wq can observe
JoinRange == 0..(Cardinality(Joins(wq)) + 1)
MoranRange == {v \in {mi.I} \cup {mi.sim[t] : t \in DOMAIN mi.sim} : ~v.nan}
InUpperTail(sim, v, perms) == MoranLarger(sim, v) <= perms - MoranLarger(sim, v)

\* C4: with the simulated vector fixed, a larger observed value never has a
\* larger pseudo p-value (for Moran: among observed values in the upper
\* tail). The join counts are the integers of JoinRange, where the order of
\* the p-values of every two counts follows from that of every count and
\* the next.
C4_PValueMonotone ==
  /\ jc.done =>
       \A sim \in {SimBB(jc)} : \A a \in JoinRange :
         a > 0 => PseudoP(sim, a, permutations).num <= PseudoP(sim, a - 1, permutations).num
  /\ mi.done =>
       \A a \in MoranRange : \A b \in MoranRange :
         (FGe(b, a) /\ InUpperTail(mi.sim, a, permutations)) =>
           MoranPSim(mi.sim, b, permutations).num
             <= MoranPSim(mi.sim, a, permutations).num

C4_Witness ==
  /\ jc.done
  /\ jc.bb > 0
  /\ PseudoP(SimBB(jc), jc.bb + 1, permutations).num < jc.p_sim_bb.num
  /\ jc.p_sim_bb.num < PseudoP(SimBB(jc), jc.bb - 1, permutations).num

AsExtreme(a, b, n) ==
  Abs(a.num * (n - 1) + a.den) * b.den >= Abs(b.num * (n - 1) + b.den) * a.den

\* the simulated values at least as far from the expectation as the
\* observed one, in either tail
TwoTailedCount(sim, obs, n) ==
  Cardinality({t \in DOMAIN sim : ~sim[t].nan /\ AsExtreme(sim[t], obs, n)})

\* C6 as stated: Moran's p_sim is (extreme_count + 1) / (permutations + 1)
\* with extreme_count the simulated values at least as extreme as the
\* observed I in either tail.
C6_TwoTailedPValue ==
  (mi.done /\ ~mi.I.nan) =>
    /\ mi.p_sim.num = TwoTailedCount(mi.sim, mi.I, wq.n) + 1
    /\ mi.p_sim.den = permutations + 1

\* C6 amended: Moran's p_sim is one-tailed, taken in the tail the observed
\* I falls in: the count is the smaller of the number of simulated values
\* >= I and the number of simulated values not >= I, so it never exceeds
\* half the permutations.
C6_DirectedPValue ==
  mi.done =>
    LET larger == Cardinality({t \in 1..permutations : FGe(mi.sim[t], mi.I)})
    IN /\ mi.p_sim.den = permutations + 1
       /\ mi.p_sim.num = (IF larger <= permutations - larger
                          THEN larger ELSE permutations - larger) + 1
       /\ 2 * (mi.p_sim.num - 1) <= permutations

C6_Witness ==
  /\ mi.done
  /\ ~mi.I.nan
  /\ ~InUpperTail(mi.sim, mi.I, permutations)
  /\ mi.p_sim.num - 1 < TwoTailedCount(mi.sim, mi.I, wq.n)

\* C7: a test cell executed again with the same seed, inputs and
\* permutation count leaves the simulated vector and the p-value as they
\* were.
C7_Deterministic ==
  [][(jc.done => jc' = jc) /\ (mi.done => mi' = mi)]_vars

C7_Witness ==
  /\ "JoinCounts" \in reran
  /\ jc.done
  /\ Len(jc.sim) = permutations
  /\ jc.sim[1] # jc.sim[2]

\* queen contiguity of the grid's cells: two cells are neighbours when
\* they share an edge or a corner
QueenLattice ==
  [u \in 1..(nrows * ncols) |->
     {v \in 1..(nrows * ncols) :
        v # u /\ Abs(RowOf(u) - RowOf(v)) <= 1 /\ Abs(ColOf(u) - ColOf(v)) <= 1}]

\* rook contiguity: a shared edge only
RookLattice ==
  [u \in 1..(nrows * ncols) |->
     {v \in 1..(nrows * ncols) :
        Abs(RowOf(u) - RowOf(v)) + Abs(ColOf(u) - ColOf(v)) = 1}]

\* the join counts of the array the image cell builds, under queen and
\* under rook contiguity of the grid
QueenCounts == JoinCountsCalc(CheckerImage, QueenLattice, nrows * ncols)
RookCounts == JoinCountsCalc(CheckerImage, RookLattice, nrows * ncols)
Total(c) == c.bb + c.ww + c.bw

\* C8 as stated: on the checkerboard with queen contiguity BB is 0 and
\* BB + WW + BW is 272.
C8_CheckerboardNoBB ==
  pc = Pos("Image") =>
    /\ image = CheckerImage
    /\ QueenCounts.bb = 0
    /\ Total(QueenCounts) = 272

\* C8 amended: with queen contiguity the 144 edge joins are all mixed and
\* the 128 corner joins are all like-coloured: BB = 64, WW = 64, BW = 144,
\* 272 in all; BB is 0 under rook contiguity.
C8_CheckerboardQueen ==
  pc = Pos("Image") =>
    /\ image = CheckerImage
    /\ QueenCounts = [bb |-> 64, ww |-> 64, bw |-> 144]
    /\ Total(QueenCounts) = 272
    /\ RookCounts = [bb |-> 0, ww |-> 0, bw |-> 144]

C8_Witness ==
  /\ pc = Pos("Image")
  /\ Len(image) = nrows * ncols
  /\ image[1] = 1 /\ image[2] = 0 /\ image[ncols + 2] = 1

IsConstant(v) == \A k \in DOMAIN v : v[k] = v[1]

\* C9: Moran's I of a constant attribute vector (here over weights in which
\* every unit has a neighbour) ends in a data error, never in a result.
C9_ConstantVectorFails ==
  (mi.done /\ IsConstant(y) /\ Islands(wq) = {}) => mi.status = "error"

\* C10: a test over weights with a unit without neighbours fails with a
\* data error or reports the unit; it returns no result otherwise.
C10_IslandsFlagged ==
  /\ (jc.done /\ Islands(wq) # {}) => (jc.status = "error" \/ "islands" \in shown)
  /\ (mi.done /\ Islands(wq) # {}) => (mi.status = "error" \/ "islands" \in shown)

\* C11: a test handed a vector whose length differs from the number of
\* units of the weights raises; it leaves no observed statistic, no
\* simulated value and no p-value, and has drawn nothing from the generator.
C11_MismatchFails ==
  /\ (jc.done /\ Len(yb) # wq.n) =>
       /\ jc.status = "error"
       /\ jc.sim = << >> /\ jc.p_sim_bb.num = 0
       /\ rng.pos = 0
  /\ (mi.done /\ Len(y) # wq.n) =>
       /\ mi.status = "error"
       /\ mi.sim = << >> /\ mi.p_sim.num = 0
       /\ rng.pos = 0

C11_Witness == jc.done /\ Len(yb) > wq.n /\ Cardinality(Joins(wq)) > 0

\* the notebook's part: from the first use of y on, no value of y is missing
NoMissingInY == pc >= Pos("Lag") => (y # << >> /\ ~HasNA(y))

\* C12: a test handed an attribute vector with a non-finite value fails
\* with a data error; in the notebook the rows with a missing
\* median_home_value are dropped before wq and y are built, so y never holds
\* a missing value.
C12_NonFiniteFails ==
  /\ (mi.done /\ HasNA(y)) => mi.status = "error"
  /\ NoMissingInY

\* the generator a finished call started from: the calls of SpecCall start
\* from a freshly seeded generator
CallStart == [rng EXCEPT !.pos = 0]

\* C13: the simulated vector of a test has exactly as many entries as the
\* permutation count, 999 when the call gives no count; entry t is the
\* statistic of the t-th permutation drawn.
C13_SimulatedVector ==
  /\ (jc.done /\ jc.status = "ok") =>
       /\ Len(jc.sim) = (IF given = << >> THEN 999 ELSE given[1])
       /\ \A t \in 1..Len(jc.sim) :
            jc.sim[t] = JoinCountsCalc(Permutation(yb, AtTrial(CallStart, Len(yb), t)),
                                       wq.nb, wq.n)
  /\ (mi.done /\ mi.status = "ok") =>
       /\ Len(mi.sim) = (IF given = << >> THEN 999 ELSE given[1])
       /\ ~HasNA(y) =>
            \A t \in 1..Len(mi.sim) :
              mi.sim[t] = MoranCalc(Permutation(Centered(y), AtTrial(CallStart, Len(y), t)),
                                    wq, Z2ss(Centered(y)))

C13_Witness ==
  /\ jc.done /\ jc.status = "ok"
  /\ given = << >>
  /\ Len(jc.sim) = 999
  /\ Cardinality(Joins(wq)) > 0

\* a call with a count in which two trials differ
C13_OrderMatters ==
  /\ jc.done /\ jc.status = "ok"
  /\ Len(jc.sim) >= 2
  /\ jc.sim[1] # jc.sim[2]

\* the reorderings of 1..n, for every n the local test is run on
Reorderings ==
  [n \in 1..MaxMoranUnits |->
     {f \in [1..n -> 1..n] : \A a \in 1..n : \A b \in 1..n : f[a] = f[b] => a = b}]

\* the local statistic of focal unit i when unit k carries the observed
\* value of unit f[k]: d is the centered y, den its sum of squares
LocalOf(i, f, d, den) ==
  LocalStat(wq.n, d[f[i]], SumSet([k \in 1..wq.n |-> d[f[k]]], wq.nb[i]), Card(wq, i), den)

\* C14: in every trial of the local test, for every focal unit i, the
\* simulated value is the local statistic of an assignment that leaves i's
\* own observed value at i and reorders the other n - 1 observed values over
\* the other n - 1 units: the indices drawn for the neighbours are distinct
\* indices into the other units.
C14_ConditionalPermutation ==
  (li.done /\ li.status = "ok") =>
    \A d \in {Centered(y)} : \A den \in {Z2ss(d)} : \A t \in 1..permutations :
      /\ Len(li.ids[t]) = MaxCard(wq)
      /\ \A k \in DOMAIN li.ids[t] :
           /\ li.ids[t][k] \in 1..(wq.n - 1)
           /\ \A l \in DOMAIN li.ids[t] : li.ids[t][k] = li.ids[t][l] => k = l
      /\ \A i \in 1..wq.n :
           \E f \in Reorderings[wq.n] : f[i] = i /\ li.sim[i][t] = LocalOf(i, f, d, den)

C14_Witness ==
  /\ li.done /\ li.status = "ok"
  /\ wq.n >= 3
  /\ \E t \in 1..permutations : \E i \in 1..wq.n :
       /\ li.ids[t] # [k \in 1..MaxCard(wq) |-> k]
       /\ ~li.Is[i].nan
       /\ li.sim[i][t] # li.Is[i]

\* n times the deviation of unit i's value from the mean of y
OwnDev(i) == Len(y) * y[i] - SumSeq(y)
\* n * den times the deviation of unit i's spatial lag from the mean of y
LagDev(i) ==
  LET l == Lag([wq EXCEPT !.transform = "r"], y)[i]
  IN Len(y) * l.num - l.den * SumSeq(y)

\* C15: Moran_Local yields per unit one observed I_i, one simulated
\* distribution of permutations values, one p-value and one quadrant of 1
\* (High-High), 2 (Low-High), 3 (Low-Low), 4 (High-Low); the quadrant is
\* High-High when the unit's own deviation from the mean and its lag's are
\* both positive, Low-Low when both are negative, High-Low when own is
\* positive and the lag negative, Low-High when own is negative and the lag
\* positive.
C15_LocalQuadrants ==
  (li.done /\ li.status = "ok") =>
    /\ Len(li.Is) = wq.n /\ Len(li.sim) = wq.n
    /\ Len(li.p_sim) = wq.n /\ Len(li.q) = wq.n
    /\ \A i \in 1..wq.n :
         /\ Len(li.sim[i]) = permutations
         /\ InUnitInterval(li.p_sim[i])
         /\ li.q[i] \in 1..4
         /\ \A own \in {OwnDev(i)} : \A lag \in {LagDev(i)} :
              /\ (own > 0 /\ lag > 0) => li.q[i] = 1
              /\ (own < 0 /\ lag > 0) => li.q[i] = 2
              /\ (own < 0 /\ lag < 0) => li.q[i] = 3
              /\ (own > 0 /\ lag < 0) => li.q[i] = 4

C15_Witness ==
  /\ li.done /\ li.status = "ok"
  /\ \E i \in 1..wq.n : \E j \in 1..wq.n :
       /\ li.q[i] = 1 /\ OwnDev(i) > 0 /\ LagDev(i) > 0
       /\ li.q[j] = 2 /\ OwnDev(j) < 0 /\ LagDev(j) > 0

\* the ordered pairs (i, j) with w_ij > 0
WeightedPairs == {p \in (1..wq.n) \X (1..wq.n) : p[2] \in wq.nb[p[1]]}
\* a common multiple M of the row cardinalities, and M * w_ij for the
\* row-standardized weight w_ij = 1 / card(i)
RowMultiple ==
  ProdSet([i \in 1..wq.n |-> IF wq.nb[i] = {} THEN 1 ELSE Cardinality(wq.nb[i])], 1..wq.n)
ScaledWeight(p) == RowMultiple \div Cardinality(wq.nb[p[1]])
\* n * z_i for z = y - mean(y)
NZ(i) == Len(y) * y[i] - SumSet(y, 1..Len(y))

\* C16: Moran's I is (n / S0) * (sum over i, j of w_ij z_i z_j) / (sum over i
\* of z_i^2), z the attribute minus its mean and S0 the sum of all weights
\* (row-standardized by the call); the quotient is nan exactly when S0 or
\* the sum of squares is 0.
C16_MoranFormula ==
  (mi.done /\ mi.status = "ok" /\ ~HasNA(y)) =>
    LET s0 == SumSet([p \in WeightedPairs |-> ScaledWeight(p)], WeightedPairs)
        cross == SumSet([p \in WeightedPairs |-> ScaledWeight(p) * NZ(p[1]) * NZ(p[2])],
                        WeightedPairs)
        z2 == SumSet([i \in 1..wq.n |-> NZ(i) * NZ(i)], 1..wq.n)
    IN /\ mi.I.nan <=> (s0 = 0 \/ z2 = 0)
       /\ ~mi.I.nan => mi.I.num * (s0 * z2) = mi.I.den * (wq.n * cross)

C16_Witness ==
  /\ mi.done /\ mi.status = "ok"
  /\ ~mi.I.nan /\ mi.I.num # 0
  /\ Islands(wq) # {}

\* the k-th smallest value of y
Kth(k) ==
  CHOOSE v \in {y[i] : i \in 1..Len(y)} :
    /\ Cardinality({i \in 1..Len(y) : y[i] < v}) < k
    /\ k <= Cardinality({i \in 1..Len(y) : y[i] <= v})
\* twice the median of y: the middle value counted twice, or the sum of the
\* two middle values
TwiceMedian == Kth((Len(y) + 1) \div 2) + Kth(Len(y) \div 2 + 1)
IsHigh(k) == 2 * y[k] > TwiceMedian

\* C17: the labels are the attribute thresholded at its median: every unit
\* has one label, high when its value is strictly greater than the median
\* and low otherwise (a value equal to the median is low); as booleans
\* after the first labelling cell, as "0 Low" / "1 High" after the second,
\* as 0 / 1 from the Join_Counts cell on.
C17_MedianLabels ==
  /\ pc = Pos("Above") =>
       /\ Len(yb) = Len(y)
       /\ \A k \in 1..Len(y) : yb[k] = IsHigh(k)
  /\ pc = Pos("Labels") =>
       /\ Len(yb) = Len(y)
       /\ \A k \in 1..Len(y) : yb[k] = (IF IsHigh(k) THEN "1 High" ELSE "0 Low")
  /\ pc >= Pos("JoinCounts") =>
       /\ Len(yb) = Len(y)
       /\ \A k \in 1..Len(y) : yb[k] = (IF IsHigh(k) THEN 1 ELSE 0)

C17_Witness ==
  /\ pc = Pos("JoinCounts")
  /\ \E k \in 1..Len(y) : 2 * y[k] = TwiceMedian /\ yb[k] = 0
  /\ \E k \in 1..Len(y) : yb[k] = 1

\* the sum of the weights of row i, as a fraction over card(i)
RowSum(i) ==
  Rat(SumSet([j \in 1..wq.n |-> Weight(wq, i, j).num], wq.nb[i]), Cardinality(wq.nb[i]))

\* C18: in every weights structure the notebook builds no unit is its own
\* neighbour; under the binary transform w_ij = 1 exactly when w_ji = 1;
\* under the row-standardized transform the weights of every unit with
\* neighbours sum to 1.
C18_WeightsInvariant ==
  wq.n > 0 =>
    /\ \A i \in 1..wq.n : i \notin wq.nb[i] /\ Weight(wq, i, i) = Rat(0, 1)
    /\ wq.transform \in {"O", "b"} =>
         \A i \in 1..wq.n : \A j \in 1..wq.n :
           /\ Weight(wq, i, j) \in {Rat(0, 1), Rat(1, 1)}
           /\ Weight(wq, i, j) = Rat(1, 1) <=> Weight(wq, j, i) = Rat(1, 1)
    /\ wq.transform = "r" =>
         \A i \in 1..wq.n :
           wq.nb[i] # {} => RowSum(i).num = RowSum(i).den

C18_Witness ==
  /\ wq.n > 0
  /\ wq.transform = "b"
  /\ \E i \in 1..wq.n : Cardinality(wq.nb[i]) >= 2

\* the statement-by-statement calls build the results of the calls taken
\* whole
LoopAgrees ==
  /\ jc.done => jc = Join_Counts(run.z, wq, permutations, run.r0)
  /\ mi.done => mi = Moran(y, wq, permutations, run.r0)
  /\ li.done => li = Moran_Local(y, wq, permutations, run.r0)

\* a is a rearrangement of b: every value occurs as often in a as in b
SameMultiset(a, b) ==
  /\ Len(a) = Len(b)
  /\ \A k \in DOMAIN b :
       Cardinality({j \in DOMAIN a : a[j] = b[k]}) = Cardinality({j \in DOMAIN b : b[j] = b[k]})

\* C19: in a global test (Join_Counts, Moran) the realization of every
\* trial is a reordering of the input values over the units (the same
\* values as often, so the same number of high units), and no step of the
\* trials, of the loop over the units of the local test, or of the
\* statistics after them changes the neighbor lists or the weights
C19_Reordering ==
  /\ [](run.phase \in {"trials", "done"} => SameMultiset(run.cur, run.z))
  /\ [][run.phase \in {"trials", "units"} => wq' = wq]_vars

\* a trial has drawn a realization that differs from the input, on a
\* structure with a join, and the test has gone on to its statistics
C19_Witness ==
  /\ run.phase = "done"
  /\ run.kind \in {"join", "moran"}
  /\ run.cur # run.z
  /\ \E i \in 1..wq.n : wq.nb[i] # {}

\* every value a finished call needs is in run.sim
Recorded ==
  IF run.kind = "local"
  THEN /\ Len(run.sim) = wq.n
       /\ \A i \in DOMAIN run.sim : Len(run.sim[i]) = permutations
  ELSE Len(run.sim) = permutations

FirstRun(c) == pc = Pos(c) - 1 /\ pc' = Pos(c)

\* C24: in the run from top to bottom, wq is binary when Join_Counts is
\* computed and where wq.s0 / 2 is evaluated (between the Join_Counts cell
\* and the next assignment of the transform), and it is row-standardized
\* already when Moran and Moran_Local are called; the cell that assigns
\* wq.transform = 'r' before Moran_Local leaves wq as it was
C24_TransformAtCalls ==
  /\ [](pc = Pos("JoinCounts") => wq.transform = "b")
  /\ [][/\ FirstRun("JoinCounts") => wq'.transform = "b"
        /\ FirstRun("Moran") => wq.transform = "r"
        /\ FirstRun("MoranLocal") => wq.transform = "r"
        /\ FirstRun("Lag2") => wq' = wq]_vars

\* the three tests have run, on weights with a join
C24_Witness ==
  /\ pc = Len(Cells)
  /\ reruns = 0
  /\ jc.done /\ mi.done /\ li.done
  /\ Joins(wq) # {}

\* the units of the frame after the rows without a value were dropped
Kept == SelectSeq([r \in Rows |-> r], LAMBDA r : frame[r] # NA)

\* C25: from the dropna on, san_diego keeps its rows; at every test the
\* vector and the weights have one entry per row of san_diego, in the
\* order of its rows, and the test has run on them
C25_SameUnits ==
  /\ [](pc >= Pos("Dropna") => san_diego = Kept)
  /\ [](pc >= Pos("Lag") =>
          /\ Len(y) = Len(san_diego)
          /\ wq.n = Len(san_diego)
          /\ \A k \in 1..Len(san_diego) :
               /\ y[k] = frame[san_diego[k]]
               /\ wq.nb[k] = {l \in 1..Len(san_diego) :
                                l # k /\ {san_diego[k], san_diego[l]} \in touch})
  /\ [](jc.done => Len(yb) = wq.n /\ jc.status = "ok")
  /\ [](mi.done => mi.status = "ok")
  /\ [](li.done => li.status = "ok" /\ Len(li.Is) = wq.n)

\* a row was dropped, and the tests ran on the rows that are left
C25_Witness ==
  /\ pc = Len(Cells)
  /\ Len(san_diego) < MaxRows
  /\ jc.done /\ mi.done /\ li.done
  /\ Joins(wq) # {}

\* the simulated values and the p-value of jc are those drawn from seed
\* 12345
JoinCountsFromSeed ==
  /\ \A t \in 1..permutations :
       jc.sim[t] = JoinCountsCalc(Permutation(yb, AtTrial(Seeded(SEED), Len(yb), t)),
                                  wq.nb, wq.n)
  /\ jc.p_sim_bb = PseudoP(SimBB(jc), jc.bb, permutations)
\* the simulated values and the p-value of mi are those drawn from seed
\* 12345
MoranFromSeed ==
  mi.I.nan \/
    /\ \A t \in 1..permutations :
         mi.sim[t] = MoranCalc(Permutation(Centered(y), AtTrial(Seeded(SEED), Len(y), t)),
                               [wq EXCEPT !.transform = "r"], Z2ss(Centered(y)))
    /\ mi.p_sim = MoranPSim(mi.sim, mi.I, permutations)

\* C26: whatever cells ran before, and in whatever state they left the
\* generator, the simulated values and the p-value that the Join_Counts
\* cell and the Moran cell leave at their first execution are those drawn
\* from seed 12345, and every later step, the re-executions of either
\* cell among them, leaves them as they were
C26_ReexecutionReproduces ==
  /\ []((jc.done /\ pc = Pos("JoinCounts")) => JoinCountsFromSeed)
  /\ []((mi.done /\ pc = Pos("Moran")) => MoranFromSeed)
  /\ [][jc.done => jc'.sim = jc.sim /\ jc'.p_sim_bb = jc.p_sim_bb]_vars
  /\ [][mi.done => mi'.sim = mi.sim /\ mi'.p_sim = mi.p_sim]_vars

\* the Moran cell was executed again after Moran_Local had drawn from the
\* generator, and two of its trials differ
C26_Witness ==
  /\ "Moran" \in reran
  /\ li.done
  /\ rng.pos > 0
  /\ ~mi.I.nan
  /\ \E s \in 1..permutations, t \in 1..permutations : mi.sim[s] # mi.sim[t]

\* C27: Moran_Local starts from the generator as np.random.seed(12345)
\* left it, and executing its cell again leaves the p-values as they were
C27_LocalReproducible ==
  /\ [](pc = Pos("MoranLocal") - 1 => rng = Seeded(SEED))
  /\ [][li.done => li'.p_sim = li.p_sim]_vars

\* top to bottom, the generator at the call of Moran_Local is the seeded one
C27_SeededAtFirstRun ==
  (pc = Pos("MoranLocal") - 1 => rng = Seeded(SEED))

\* C23: a consumer of random numbers that runs between np.random.seed and
\* a test leaves the test's simulated values and p-values as they are
\* when the test runs right after the seeding
C23_OwnGenerator ==
  li.done =>
    LET fresh == Moran_Local(y, wq, permutations, Seeded(SEED))
    IN li.sim = fresh.sim /\ li.p_sim = fresh.p_sim

\* the number of units labelled high
Highs ==
  Cardinality({k \in DOMAIN yb :
                 IF pc = Pos("Above") THEN yb[k]
                 ELSE IF pc < Pos("JoinCounts") THEN yb[k] = "1 High"
                 ELSE yb[k] = 1})

\* C28: under yb = y > y.median() at most floor(n/2) of the n units are
\* labelled high, and none when all values are equal
C28_AtMostHalfHigh ==
  pc >= Pos("Above") =>
    /\ 2 * Highs <= Len(y)
    /\ IsConstant(y) => Highs = 0

\* an odd number of units of which floor(n/2) are high
C28_Witness ==
  /\ pc = Pos("Above")
  /\ Len(y) % 2 = 1
  /\ Highs = Len(y) \div 2
  /\ Highs >= 1

\* the tracts of a subset
InSubset(sub) == {sub[k] : k \in DOMAIN sub}

\* the number of county codes in the file
CodesInFile == Cardinality({seg.geoid[k] : k \in DOMAIN seg.geoid})

\* C30: when the file holds seven county codes, then after the codes were
\* replaced by the names every tract is either in coastal or in inland,
\* and none is in both
C30_CoastalInlandPartition ==
  (seg.pc = 6 /\ CodesInFile = Len(CountyNames)) =>
    /\ InSubset(seg.coastal) \cup InSubset(seg.inland) = DOMAIN seg.geoid
    /\ InSubset(seg.coastal) \cap InSubset(seg.inland) = {}
    /\ Len(seg.coastal) + Len(seg.inland) = Len(seg.geoid)

\* seven counties, tracts on both sides
C30_Witness ==
  /\ seg.pc = 6
  /\ CodesInFile = 7
  /\ Len(seg.coastal) = 4
  /\ Len(seg.inland) = 3

\* C29: the BB, WW and BW counts of every simulated realization add up to
\* the number of joins, as the observed counts do: a relabelling moves
\* joins between the classes and leaves the joins themselves
C29_SimulatedTotals ==
  /\ (run.kind = "join" /\ run.phase \in {"trials", "done"}) =>
       \A t \in DOMAIN run.sim :
         /\ run.sim[t].bb + run.sim[t].ww + run.sim[t].bw
              = run.obs[1].bb + run.obs[1].ww + run.obs[1].bw
         /\ run.sim[t].bb + run.sim[t].ww + run.sim[t].bw = Cardinality(Joins(wq))
  /\ (jc.done /\ jc.status = "ok") =>
       \A t \in DOMAIN jc.sim :
         jc.sim[t].bb + jc.sim[t].ww + jc.sim[t].bw = jc.bb + jc.ww + jc.bw

\* a realization whose joins fall in the classes otherwise than the
\* observed ones
C29_Witness ==
  /\ jc.done /\ jc.status = "ok"
  /\ \E t \in DOMAIN jc.sim : jc.sim[t].bb # jc.bb /\ jc.sim[t].bw # jc.bw

\* the trials a finished or running test has performed
TrialsDone == IF run.kind = "local" THEN permutations ELSE run.t

C22_Raised ==
  /\ run.phase = "error"
  /\ jc.status = "error" \/ mi.status = "error"

C21_UnitsAnyOrder ==
  li.done =>
    LET inorder == Moran_Local(y, wq, permutations, run.r0)
    IN li.sim = inorder.sim /\ li.p_sim = inorder.p_sim

\* the trials of a global test in any order: the p-value and the mean are
\* those of the trials taken in order (the same values, at other indices)
C21_SameMeanAndP ==
  /\ jc.done =>
       LET inorder == Join_Counts(run.z, wq, permutations, run.r0)
       IN /\ jc.p_sim_bb = inorder.p_sim_bb
          /\ SumSeq(SimBB(jc)) = SumSeq(SimBB(inorder))
  /\ mi.done =>
       LET inorder == Moran(y, wq, permutations, run.r0)
       IN mi.p_sim = inorder.p_sim /\ Mean(mi.sim) = Mean(inorder.sim)
====
